---- MODULE Spec2Model ----
(***************************************************************************)
(* Model of the Clarifai streaming provider (src/src/api/providers/        *)
(* clarifai.ts): ClarifaiHandler.stream and its tokenizer                  *)
(* parseClarifaiOutput.                                                    *)
(*                                                                         *)
(* Texts.  The request text that stream builds is only ever concatenated,  *)
(* so it is a TLA+ string.  A text that the code scans (the model id that  *)
(* is split on "/", the response text the block regex runs over) is a      *)
(* sequence of lexemes: each lexeme is a string whose characters the       *)
(* scanning code can only treat as a unit ("<thinking>", a code fence,     *)
(* "\n", a run of word characters).  Offsets into such a text are 0-based, *)
(* as in the source, and count lexemes.                                    *)
(*                                                                         *)
(* Optional values (a configuration field, a regex capture group) are sets *)
(* with at most one element: {} is undefined.                              *)
(***************************************************************************)
EXTENDS Integers, Sequences, FiniteSets, TLC

\* ------------------------------------------------------------------ bounds
\* longest response text of the exhaustive tokenizer runs (in lexemes)
MaxLen == 5
\* longest tag-only response text of the exhaustive tag runs (in lexemes)
MaxTagLen == 6
\* most outputs in a response
MaxOutputs == 2
\* longest model id of the exhaustive configuration runs (in lexemes)
MaxIdLen == 5
\* most messages in a history of plain string messages
MaxMessages == 3
\* largest history with content parts: its messages plus their parts
MaxHistorySize == 4
\* longest text of the exhaustive tokenizer runs under fairness (in lexemes)
MaxFairLen == 4
\* longest text of the exhaustive runs on blocks inside blocks (in lexemes)
MaxNestLen == 6
\* the most messages posted and not yet received, in both directions
MaxInFlight == 3

\* ----------------------------------------------------------------- lexemes
\* the code fence, three backquotes (a TLA+ string cannot hold a backquote)
Fence == "'''"
TagNames == {"task", "environment_details", "thinking"}
OpenTag(t) == "<" \o t \o ">"
CloseTag(t) == "</" \o t \o ">"
\* the members of the regex class \s that occur in the texts of the model
Whitespace == {" ", "\n"}
\* the lexemes made of characters of the regex class \w only
WordLexemes == {"x", "tool_code", "tool_result", "Hello", "ponder", "world", "json"}

IsSpace(c) == c \in Whitespace
IsWord(c) == c \in WordLexemes

\* text[i] of the source: the lexeme at 0-based offset i
At(text, i) == text[i + 1]
\* text.substring(from, to)
Substring(text, from, to) == SubSeq(text, from + 1, to)

SetMax(S) == CHOOSE m \in S : \A k \in S : k <= m

RECURSIVE TrimStart(_)
TrimStart(s) ==
    IF s # <<>> /\ IsSpace(Head(s)) THEN TrimStart(Tail(s)) ELSE s

RECURSIVE TrimEnd(_)
TrimEnd(s) ==
    IF s # <<>> /\ IsSpace(s[Len(s)]) THEN TrimEnd(SubSeq(s, 1, Len(s) - 1)) ELSE s

\* trimEnd in the place of trim
TrimEndOnly(s) == TrimEnd(s)

\* String.prototype.trim
Trim(s) == TrimEnd(TrimStart(s))

\* the value of an optional that is defined
Val(o) == CHOOSE v \in o : TRUE

\* ------------------------------------------------------------- block regex
\* offset of the first lexeme c at or after offset from, -1 when there is none
RECURSIVE IndexOf(_, _, _)
IndexOf(text, c, from) ==
    IF from >= Len(text) THEN -1
    ELSE IF At(text, from) = c THEN from
    ELSE IndexOf(text, c, from + 1)

\* \s* and \w+ are greedy: the offset after the longest run starting at i
RECURSIVE SkipSpaces(_, _)
SkipSpaces(text, i) ==
    IF i < Len(text) /\ IsSpace(At(text, i)) THEN SkipSpaces(text, i + 1) ELSE i

RECURSIVE SkipWords(_, _)
SkipWords(text, i) ==
    IF i < Len(text) /\ IsWord(At(text, i)) THEN SkipWords(text, i + 1) ELSE i

\* the result of a failed match: every capture group undefined
NoMatch == [index |-> -1, end |-> -1, g1 |-> {}, g2 |-> {}, g3 |-> {}, g4 |-> {}]

\* the same with a greedy content: up to the last closing tag of the name
TagMatchGreedy(text, i, t, e) ==
    IF e < 0 THEN NoMatch
    ELSE [index |-> i,
          end |-> SetMax({k \in 1..Len(text) : text[k] = CloseTag(t)}),
          g1 |-> {t},
          g2 |-> {Substring(text, i + 1,
                            SetMax({k \in 1..Len(text) : text[k] = CloseTag(t)}) - 1)},
          g3 |-> {}, g4 |-> {}]

\* First alternative, <(task|environment_details|thinking)>(.*?)<\/\1>, tried
\* at offset i: group 1 is the tag name t, group 2 the shortest content that
\* is followed by the closing tag of the same name (. matches every lexeme);
\* e is the offset of that closing tag, -1 when there is none.
TagMatch(text, i, t, e) ==
    IF e < 0 THEN NoMatch
    ELSE [index |-> i, end |-> e + 1, g1 |-> {t},
          g2 |-> {Substring(text, i + 1, e)}, g3 |-> {}, g4 |-> {}]

\* offset of the first closing tag of any name at or after offset from
RECURSIVE IndexOfAnyClose(_, _)
IndexOfAnyClose(text, from) ==
    IF from >= Len(text) THEN -1
    ELSE IF \E n \in TagNames : At(text, from) = CloseTag(n) THEN from
    ELSE IndexOfAnyClose(text, from + 1)

\* the same with the block closed by the closing tag of any name
TagNamedAnyClose(text, i, names) ==
    IF names = {} THEN NoMatch
    ELSE TagMatch(text, i, Val(names), IndexOfAnyClose(text, i + 1))

TagNamed(text, i, names) ==
    IF names = {} THEN NoMatch
    ELSE TagMatch(text, i, Val(names), IndexOf(text, CloseTag(Val(names)), i + 1))

TagAt(text, i) ==
    TagNamed(text, i, {t \in TagNames : i < Len(text) /\ At(text, i) = OpenTag(t)})

\* marker\s*FENCE(?:\w+)?\s*\n(.*?)\s*FENCE tried at offset i, FENCE being the
\* code fence.  After the opening fence the optional word run is taken whole
\* (a shorter run is followed by a word lexeme, never by \s*\n); \s*\n then
\* needs a newline in the whitespace run that follows, and the greedy \s*
\* leaves the last one to \n.  The lazy content stops at the first place
\* where \s*FENCE matches: the whitespace run that ends at the first closing
\* fence.  Backtracking to an earlier newline of the header finds the same
\* first fence, or none.
NoFenced == [end |-> -1, content |-> {}]

\* the content from offset h, closed by the first fence at offset e
FencedClose(text, h, e) ==
    IF e < 0 THEN NoFenced
    ELSE [end |-> e + 1, content |-> {TrimEnd(Substring(text, h, e))}]

\* \s*\n on a whitespace run whose newlines are at the offsets nls
FencedNewline(text, nls) ==
    IF nls = {} THEN NoFenced
    ELSE FencedClose(text, SetMax(nls) + 1, IndexOf(text, Fence, SetMax(nls) + 1))

\* \s*\n from offset r, right after the opening fence and the word run
FencedHeader(text, r) ==
    FencedNewline(text, {k \in r..(SkipSpaces(text, r) - 1) : At(text, k) = "\n"})

\* the opening fence at offset p
FencedOpen(text, p) ==
    IF p < Len(text) /\ At(text, p) = Fence
    THEN FencedHeader(text, SkipWords(text, p + 1))
    ELSE NoFenced

FencedAt(text, i, marker) ==
    IF i < Len(text) /\ At(text, i) = marker
    THEN FencedOpen(text, SkipSpaces(text, i + 1))
    ELSE NoFenced

\* the three alternatives of blockRegex at offset i, in their order
ToolResultAt(text, i, result) ==
    IF result.end >= 0
    THEN [index |-> i, end |-> result.end, g1 |-> {}, g2 |-> {},
          g3 |-> {}, g4 |-> result.content]
    ELSE NoMatch

ToolCodeAt(text, i, code) ==
    IF code.end >= 0
    THEN [index |-> i, end |-> code.end, g1 |-> {}, g2 |-> {},
          g3 |-> code.content, g4 |-> {}]
    ELSE ToolResultAt(text, i, FencedAt(text, i, "tool_result"))

FirstAlternative(text, i, tag) ==
    IF tag.end >= 0 THEN tag ELSE ToolCodeAt(text, i, FencedAt(text, i, "tool_code"))

MatchAt(text, i) == FirstAlternative(text, i, TagAt(text, i))

\* the same with a tag block anywhere preferred to a fenced block before it
ExecTagsFirst(text, from) ==
    LET tags == {i \in from..(Len(text) - 1) : TagAt(text, i).end >= 0}
        any == {i \in from..(Len(text) - 1) : MatchAt(text, i).end >= 0}
    IN  IF tags # {} THEN TagAt(text, CHOOSE i \in tags : \A k \in tags : i <= k)
        ELSE IF any # {} THEN MatchAt(text, CHOOSE i \in any : \A k \in any : i <= k)
        ELSE NoMatch

\* blockRegex.exec(text) of a global regex whose lastIndex is from: the match
\* at the leftmost offset at or after from, NoMatch when there is none
RECURSIVE Exec(_, _)
MatchOrNext(text, from, m) ==
    IF m.end >= 0 THEN m ELSE Exec(text, from + 1)

Exec(text, from) ==
    IF from >= Len(text) THEN NoMatch
    ELSE MatchOrNext(text, from, MatchAt(text, from))

\* ------------------------------------------------------ parseClarifaiOutput
Chunk(type, text) == [type |-> type, text |-> text]

\* The generator's frame: the local lastIndex, blockRegex.lastIndex, the
\* current match, and the yield it is suspended at.
ScanStart ==
    [at |-> "start", lastIndex |-> 0, regexLastIndex |-> 0, match |-> NoMatch]

\* the result of resuming the generator: its new frame and the chunk it
\* yields ({} when it returns instead)
Yield(g, at, chunk) == [scan |-> [g EXCEPT !.at = at], out |-> {chunk}]
Return(g) == [scan |-> [g EXCEPT !.at = "returned"], out |-> {}]

\* the same without the tail
AfterLoopNoTail(text, g) == Return(g)

\* after the loop: the tail of the text, if any
AfterLoop(text, g) ==
    IF g.lastIndex < Len(text)
    THEN Yield(g, "afterTail", Chunk("text", Substring(text, g.lastIndex, Len(text))))
    ELSE Return(g)

\* the same with a tool_code block yielded as a tool_use chunk of its content
BlockChunkToolUse(text, m) ==
    IF m.g1 # {} THEN {Chunk("reasoning", Trim(Val(m.g2)))}
    ELSE IF m.g3 # {} THEN {Chunk("tool_use", Val(m.g3))}
    ELSE IF m.g4 # {} THEN {Chunk("text", Substring(text, m.index, m.end))}
    ELSE {}

\* the same with the thinking tag alone mapped to reasoning
BlockChunkThinkingOnly(text, m) ==
    IF m.g1 # {}
    THEN IF Val(m.g1) = "thinking"
         THEN {Chunk("reasoning", Trim(Val(m.g2)))}
         ELSE {Chunk("text", Substring(text, m.index, m.end))}
    ELSE IF m.g3 # {} THEN {Chunk("text", Substring(text, m.index, m.end))}
    ELSE IF m.g4 # {} THEN {Chunk("text", Substring(text, m.index, m.end))}
    ELSE {}

\* the same with a fenced block reduced to its captured content
BlockChunkContentOnly(text, m) ==
    IF m.g1 # {} THEN {Chunk("reasoning", Trim(Val(m.g2)))}
    ELSE IF m.g3 # {} THEN {Chunk("text", Val(m.g3))}
    ELSE IF m.g4 # {} THEN {Chunk("text", Val(m.g4))}
    ELSE {}

\* the chunk of the match m, by the capture group that is defined
BlockChunk(text, m) ==
    IF m.g1 # {}
    THEN IF Val(m.g1) \in {"task", "environment_details", "thinking"}
         THEN {Chunk("reasoning", Trim(Val(m.g2)))}
         ELSE {Chunk("text", Substring(text, m.index, m.end))}
    ELSE IF m.g3 # {} THEN {Chunk("text", Substring(text, m.index, m.end))}
    ELSE IF m.g4 # {} THEN {Chunk("text", Substring(text, m.index, m.end))}
    ELSE {}

\* One turn of the while loop, run until the next yield: exec, the text
\* before the match, the chunk of the block, lastIndex = blockRegex.lastIndex.
RECURSIVE LoopHead(_, _)

\* the rest of a turn whose block yields out, or nothing
AfterBlock(text, g, out) ==
    IF out # {} THEN [scan |-> [g EXCEPT !.at = "afterBlock"], out |-> out]
    ELSE LoopHead(text, [g EXCEPT !.lastIndex = g.regexLastIndex])

LoopBody(text, g) == AfterBlock(text, g, BlockChunk(text, g.match))

\* the same with the text before the match left out
AfterExecNoText(text, g, m) ==
    IF m.end < 0
    THEN AfterLoop(text, [g EXCEPT !.regexLastIndex = 0, !.match = NoMatch])
    ELSE LoopBody(text, [g EXCEPT !.regexLastIndex = m.end, !.match = m])

\* the same with the text before the match yielded one lexeme at a time
AfterExecTextPerLexeme(text, g, m) ==
    IF m.end < 0
    THEN AfterLoop(text, [g EXCEPT !.regexLastIndex = 0, !.match = NoMatch])
    ELSE IF m.index > g.lastIndex
    THEN Yield([g EXCEPT !.lastIndex = g.lastIndex + 1], "start",
               Chunk("text", Substring(text, g.lastIndex, g.lastIndex + 1)))
    ELSE LoopBody(text, [g EXCEPT !.regexLastIndex = m.end, !.match = m])

\* the same with the text before a block yielded even when there is none
AfterExecUnguarded(text, g, m) ==
    IF m.end < 0
    THEN AfterLoop(text, [g EXCEPT !.regexLastIndex = 0, !.match = NoMatch])
    ELSE Yield([g EXCEPT !.regexLastIndex = m.end, !.match = m], "afterText",
               Chunk("text", Substring(text, g.lastIndex, m.index)))

\* the turn after exec has returned m
AfterExec(text, g, m) ==
    IF m.end < 0
    THEN AfterLoop(text, [g EXCEPT !.regexLastIndex = 0, !.match = NoMatch])
    ELSE IF m.index > g.lastIndex
    THEN Yield([g EXCEPT !.regexLastIndex = m.end, !.match = m], "afterText",
               Chunk("text", Substring(text, g.lastIndex, m.index)))
    ELSE LoopBody(text, [g EXCEPT !.regexLastIndex = m.end, !.match = m])

LoopHead(text, g) == AfterExec(text, g, Exec(text, g.regexLastIndex))

\* the same with lastIndex left where it was after a block
ResumeNoAdvance(text, g) ==
    CASE g.at = "start" -> LoopHead(text, g)
      [] g.at = "afterText" -> LoopBody(text, g)
      [] g.at = "afterBlock" -> LoopHead(text, g)
      [] g.at = "afterTail" -> Return(g)
      [] OTHER -> [scan |-> g, out |-> {}]

\* next() on the generator of parseClarifaiOutput(text)
Resume(text, g) ==
    CASE g.at = "start" -> LoopHead(text, g)
      [] g.at = "afterText" -> LoopBody(text, g)
      [] g.at = "afterBlock" -> LoopHead(text, [g EXCEPT !.lastIndex = g.regexLastIndex])
      [] g.at = "afterTail" -> Return(g)
      [] OTHER -> [scan |-> g, out |-> {}]

\* every chunk the generator yields when it is drained from frame g
RECURSIVE Drain(_, _)
DrainFrom(text, r) ==
    IF r.out = {} THEN <<>> ELSE <<Val(r.out)>> \o Drain(text, r.scan)

Drain(text, g) == DrainFrom(text, Resume(text, g))

ParseClarifaiOutput(text) == Drain(text, ScanStart)

\* ------------------------------------------------------------------ stream
VARIABLES
    options,         \* this.options: clarifaiPat, apiModelId, clarifaiApiBaseUrl
    systemPrompt,    \* argument of stream
    messages,        \* argument of stream
    aborted,         \* abortSignal.aborted
    pc,              \* where the generator stands
    requests,        \* the calls of axios.post made so far
    response,        \* what axios.post settled with ({} while it has not)
    outputText,      \* fullOutputText, the argument of parseClarifaiOutput
    scan,            \* the frame of parseClarifaiOutput
    chunks,          \* the chunks the consumer has received, in order
    thrown,          \* the message of the Error raised to the consumer, if any
    model,           \* what the last call of getModel returned, if any
    controller,      \* who holds the AbortController of abortSignal
    other,           \* the frame of a second call of stream that is suspended, if any
    cancelRequested, \* the caller of createMessage has asked for a cancellation
    patInput,        \* ClarifaiSettings: the state pat
    isTesting,       \* ClarifaiSettings: the state isTesting
    testResult,      \* ClarifaiSettings: the state testResult ({} for null)
    isSaving,        \* ClarifaiSettings: the state isSaving
    saveResult,      \* ClarifaiSettings: the state saveResult ({} for null)
    toExtension,     \* messages of vscode.postMessage the extension has not handled yet
    toWebview        \* messages posted to the webview its listener has not received yet

vars == <<options, systemPrompt, messages, aborted, pc, requests, response,
          outputText, scan, chunks, thrown, model, controller, other,
          cancelRequested, patInput, isTesting, testResult, isSaving, saveResult,
          toExtension, toWebview>>

\* the state of the settings component and the messages between it and the
\* extension
settingsVars ==
    <<patInput, isTesting, testResult, isSaving, saveResult, toExtension, toWebview>>

\* the handler and its calls
streamVars ==
    <<options, systemPrompt, messages, aborted, pc, requests, response,
      outputText, scan, chunks, thrown, model, controller, other, cancelRequested>>

\* The settings component after its first render and effect: the states have
\* their initial values and getClarifaiSettings is posted.
Mounted ==
    /\ patInput = ""
    /\ isTesting = FALSE
    /\ testResult = {}
    /\ isSaving = FALSE
    /\ saveResult = {}
    /\ toExtension = <<[type |-> "getClarifaiSettings"]>>
    /\ toWebview = <<>>


\* ------------------------------------------------------------------ inputs
\* every sequence over S of length at most n
SeqsUpTo(S, n) == UNION {[1..k -> S] : k \in 0..n}

ValidModelId == <<"u", "/", "a", "/", "models", "/", "n">>
ExampleRaw == <<"Hello", " ", "<thinking>", "ponder", "</thinking>", " ", "world">>
FencedRaw == <<"tool_code", Fence, "json", "\n", "x", "\n", Fence>>
RawTexts == {ExampleRaw, FencedRaw, <<"x">>, <<"<task>", " ", "x", "</task>">>}

StringContent(v) == [isArray |-> FALSE, value |-> v]
ArrayContent(parts) == [isArray |-> TRUE, value |-> parts]
Message(role, content) == [role |-> role, content |-> content]
Roles == {"user", "assistant"}
Parts == {[type |-> "text", text |-> "a"], [type |-> "text", text |-> "b"],
          [type |-> "image", source |-> "data"]}

\* the histories whose messages and content parts number at most n together
RECURSIVE HistoriesOfSize(_)
HistoriesOfSize(n) ==
    {<<>>} \cup
    UNION {{<<Message(role, ArrayContent(parts))>> \o rest :
                role \in Roles, parts \in [1..k -> Parts],
                rest \in HistoriesOfSize(n - 1 - k)} : k \in 0..(n - 1)}

\* s.join("") of a sequence of strings
RECURSIVE Concat(_)
Concat(s) == IF s = <<>> THEN "" ELSE Head(s) \o Concat(Tail(s))

\* modelId.split("/") of a model id given as lexemes: the segments, as strings
RECURSIVE Split(_)
Split(id) ==
    LET i == IndexOf(id, "/", 0)
    IN  IF i < 0 THEN <<Concat(id)>>
        ELSE <<Concat(Substring(id, 0, i))>> \o Split(Substring(id, i + 1, Len(id)))

\* parts.map(item => item.type === "text" ? item.text : "").join("\n")
PartText(item) == IF item.type = "text" THEN item.text ELSE ""

\* the same with the parts that are not text left out before the join
RECURSIVE JoinPartsTextOnly(_)
JoinPartsTextOnly(parts) ==
    IF parts = <<>> THEN ""
    ELSE IF parts[1].type # "text" THEN JoinPartsTextOnly(Tail(parts))
    ELSE IF JoinPartsTextOnly(Tail(parts)) = "" THEN parts[1].text
    ELSE parts[1].text \o "\n" \o JoinPartsTextOnly(Tail(parts))

RECURSIVE JoinParts(_)
JoinParts(parts) ==
    IF parts = <<>> THEN ""
    ELSE IF Len(parts) = 1 THEN PartText(parts[1])
    ELSE PartText(parts[1]) \o "\n" \o JoinParts(Tail(parts))

ContentText(content) ==
    IF content.isArray THEN JoinParts(content.value) ELSE content.value

\* the same with one newline after a message
AppendMessageOneNewline(inputText, msg) ==
    inputText \o (IF msg.role = "user" THEN "User: " ELSE "Assistant: ") \o ContentText(msg.content) \o "\n"

\* the body of the for loop over messages, on the text built so far
AppendMessage(inputText, msg) ==
    IF msg.role = "user"
    THEN inputText \o "User: " \o ContentText(msg.content) \o "\n\n"
    ELSE IF msg.role = "assistant"
    THEN inputText \o "Assistant: " \o ContentText(msg.content) \o "\n\n"
    ELSE inputText

RECURSIVE AppendMessages(_, _)
AppendMessages(inputText, msgs) ==
    IF msgs = <<>> THEN inputText
    ELSE AppendMessages(AppendMessage(inputText, Head(msgs)), Tail(msgs))

\* inputText: the system prompt, if any, then every message
InputText(prompt, msgs) ==
    AppendMessages(IF prompt # "" THEN "System: " \o prompt \o "\n\n" ELSE "", msgs)

DefaultBaseUrl == "https://api.clarifai.com"

\* the same with the base URL of the configuration ignored
RequestDefaultBaseOnly(pat, baseUrlOpt, modelParts, inputText) ==
    [url |-> DefaultBaseUrl \o "/v2/users/" \o modelParts[1] \o "/apps/" \o modelParts[2]
             \o "/models/" \o modelParts[4] \o "/outputs",
     headers |-> [Authorization |-> "Key " \o pat,
                  ContentType |-> "application/json"],
     body |-> [inputs |-> <<[data |-> [text |-> [raw |-> inputText]]]>>]]

\* the call axios.post(url, requestBodyTxt, {headers, signal})
Request(pat, baseUrlOpt, modelParts, inputText) ==
    [url |-> (IF baseUrlOpt = {} \/ baseUrlOpt = {""} THEN DefaultBaseUrl
              ELSE Val(baseUrlOpt)) \o "/v2/users/" \o modelParts[1] \o "/apps/" \o modelParts[2]
             \o "/models/" \o modelParts[4] \o "/outputs",
     headers |-> [Authorization |-> "Key " \o pat,
                  ContentType |-> "application/json"],
     body |-> [inputs |-> <<[data |-> [text |-> [raw |-> inputText]]]>>]]

\* throw new Error(message), out of stream
Throw(message) ==
    /\ pc' = "done"
    /\ thrown' = {message}

PatMissing == "Clarifai Personal Access Token (PAT) is not configured."
ModelIdMissing == "Clarifai Model ID is not configured."
ModelIdInvalid(id) ==
    "Invalid Clarifai Model ID format: " \o Concat(id)
        \o ". Expected format: user_id/app_id/models/model_name."

\* a test for undefined only
NotUndefinedOnly(o, empty) == o = {}

\* !value of an optional string: it is undefined or the empty string
Not(o, empty) == o = {} \/ o = {empty}

\* the same without the test of the third segment
BadModelPartsLengthOnly(modelParts) == Len(modelParts) # 4

\* modelParts.length !== 4 || modelParts[2] !== "models"
BadModelParts(modelParts) == Len(modelParts) # 4 \/ modelParts[3] # "models"

\* the same with the signal looked at first: a call whose signal is already
\* raised ends silently
StreamCalledSignalFirst ==
    /\ pc = "created"
    /\ IF aborted
       THEN pc' = "done" /\ UNCHANGED <<thrown, requests>>
       ELSE IF Not(options.clarifaiPat, "")
       THEN Throw(PatMissing) /\ UNCHANGED requests
       ELSE IF Not(options.apiModelId, <<>>)
       THEN Throw(ModelIdMissing) /\ UNCHANGED requests
       ELSE IF BadModelParts(Split(Val(options.apiModelId)))
       THEN Throw(ModelIdInvalid(Val(options.apiModelId))) /\ UNCHANGED requests
       ELSE /\ requests' = Append(requests,
                   Request(Val(options.clarifaiPat), options.clarifaiApiBaseUrl,
                           Split(Val(options.apiModelId)),
                           InputText(systemPrompt, messages)))
            /\ pc' = "awaitPost"
            /\ UNCHANGED thrown
    /\ UNCHANGED <<settingsVars, cancelRequested, other, controller, model, options, systemPrompt, messages, aborted, response,
                   outputText, scan, chunks>>

\* The consumer's first next(): stream runs from its top to the await of
\* axios.post, or throws on the configuration.
StreamCalled ==
    /\ pc = "created"
    /\ IF Not(options.clarifaiPat, "")
       THEN Throw(PatMissing) /\ UNCHANGED requests
       ELSE IF Not(options.apiModelId, <<>>)
       THEN Throw(ModelIdMissing) /\ UNCHANGED requests
       ELSE IF BadModelParts(Split(Val(options.apiModelId)))
       THEN Throw(ModelIdInvalid(Val(options.apiModelId))) /\ UNCHANGED requests
       ELSE /\ requests' = Append(requests,
                   Request(Val(options.clarifaiPat), options.clarifaiApiBaseUrl,
                           Split(Val(options.apiModelId)),
                           InputText(systemPrompt, messages)))
            /\ pc' = "awaitPost"
            /\ UNCHANGED thrown
    /\ UNCHANGED <<settingsVars, cancelRequested, other, controller, model, options, systemPrompt, messages, aborted, response,
                   outputText, scan, chunks>>

\* the caller raises the cancellation signal
Abort ==
    /\ controller = "caller"
    /\ pc # "done"
    /\ ~aborted
    /\ aborted' = TRUE
    /\ UNCHANGED <<settingsVars, cancelRequested, other, controller, model, options, systemPrompt, messages, pc, requests, response,
                   outputText, scan, chunks, thrown>>

\* for (const output of outputs) if (output?.data?.text?.raw) fullOutputText += raw + "\n"
\* the same without the newline after each output
RECURSIVE FullOutputTextNoNewline(_)
FullOutputTextNoNewline(outputs) ==
    IF outputs = <<>> THEN <<>>
    ELSE (IF Head(outputs).raw # {} THEN Val(Head(outputs).raw) ELSE <<>>)
             \o FullOutputTextNoNewline(Tail(outputs))

\* the same stopped after the first output that has a text
RECURSIVE FullOutputTextFirstOnly(_)
FullOutputTextFirstOnly(outputs) ==
    IF outputs = <<>> THEN <<>>
    ELSE IF Head(outputs).raw # {} /\ Val(Head(outputs).raw) # <<>>
    THEN Val(Head(outputs).raw) \o <<"\n">>
    ELSE FullOutputTextFirstOnly(Tail(outputs))

RECURSIVE FullOutputText(_)
FullOutputText(outputs) ==
    IF outputs = <<>> THEN <<>>
    ELSE LET raw == Head(outputs).raw
         IN  (IF raw # {} /\ Val(raw) # <<>> THEN Val(raw) \o <<"\n">> ELSE <<>>)
                 \o FullOutputText(Tail(outputs))

\* the same for any outputs that are defined, whatever their number
HasOutputsAnyLength(data) == data # {} /\ Val(data).outputs # {}

\* data?.outputs?.length > 0
HasOutputs(data) == data # {} /\ Val(data).outputs # {} /\ Len(Val(Val(data).outputs)) > 0

\* data?.status?.description and data?.status?.code, "" and 0 when undefined
\* (an undefined value and these are the same to ||)
EnvelopeDescription(data) ==
    IF data # {} /\ Val(data).status # {} THEN Val(Val(data).status).description ELSE ""
EnvelopeCode(data) ==
    IF data # {} /\ Val(data).status # {} THEN Val(Val(data).status).code ELSE 0

ApiError(statusCode, statusDescription) ==
    "Clarifai API error (" \o statusCode \o "): " \o statusDescription

\* the message thrown in the else branch of the status test
ResponseError(r) ==
    LET statusDescription == IF EnvelopeDescription(r.data) # ""
                             THEN EnvelopeDescription(r.data) ELSE "Unknown error"
        statusCode == IF EnvelopeCode(r.data) # 0 THEN EnvelopeCode(r.data) ELSE r.status
    IN  ApiError(ToString(statusCode), statusDescription)

\* the catch clause on an Error that is neither a cancellation nor an
\* AxiosError: it is wrapped and thrown again
StreamError(message) == "Clarifai stream error: " \o message

\* the catch clause on an AxiosError
AxiosErrorMessage(e) ==
    LET data == IF e.response = {} THEN {} ELSE Val(e.response).data
        statusDescription == IF EnvelopeDescription(data) # ""
                             THEN EnvelopeDescription(data) ELSE e.message
        statusCode == IF EnvelopeCode(data) # 0 THEN ToString(EnvelopeCode(data))
                      ELSE IF e.response # {} /\ Val(e.response).status # 0
                      THEN ToString(Val(e.response).status)
                      ELSE "Network Error"
    IN  ApiError(statusCode, statusDescription)

\* yield* of the generator of parseClarifaiOutput(text), resumed from frame g:
\* its next chunk goes to the consumer; when it returns, stream falls out of
\* the try statement and returns
Delegate(r) ==
    /\ scan' = r.scan
    /\ IF r.out = {}
       THEN pc' = "done" /\ UNCHANGED chunks
       ELSE pc' = "yielding" /\ chunks' = Append(chunks, Val(r.out))

YieldStar(text, g) == Delegate(Resume(text, g))

\* the responses axios.post fulfils with (validateStatus: a 2xx status), and
\* the errors it rejects with
Outputs == UNION {[1..n -> {[raw |-> {}], [raw |-> {<<>>}]}
                            \cup {[raw |-> {t}] : t \in RawTexts}] : n \in 0..MaxOutputs}
Envelopes == {{}, {[code |-> 9, description |-> "bad"]},
              {[code |-> 0, description |-> ""]}}
Datas == {{}} \cup {{[outputs |-> o, status |-> e]} :
                        o \in {{}} \cup {{x} : x \in Outputs}, e \in Envelopes}
Fulfilled == [kind : {"fulfilled"}, status : {200, 201}, data : Datas]
ErrorDatas == {{}} \cup {{[outputs |-> {}, status |-> e]} : e \in Envelopes}
Rejected == [kind : {"axiosError"}, message : {"timeout", "socket hang up"},
             response : {{}} \cup {{[status |-> 500, data |-> d]} : d \in ErrorDatas}]

\* the success branch, on the text gathered from the outputs
OnOutputs(fullOutputText) ==
    IF Len(fullOutputText) > 0
    THEN /\ outputText' = fullOutputText
         /\ YieldStar(fullOutputText, ScanStart)
         /\ UNCHANGED thrown
    ELSE /\ pc' = "done"
         /\ UNCHANGED <<outputText, scan, chunks, thrown>>

\* axios.post fulfils: stream runs on from the await to its first yield, its
\* return or its throw
PostFulfilled ==
    /\ pc = "awaitPost"
    /\ ~aborted
    /\ \E r \in Fulfilled :
        /\ response' = {r}
        /\ IF r.status = 200 /\ HasOutputs(r.data)
           THEN OnOutputs(FullOutputText(Val(Val(r.data).outputs)))
           ELSE /\ Throw(StreamError(ResponseError(r)))
                /\ UNCHANGED <<outputText, scan, chunks>>
    /\ UNCHANGED <<settingsVars, cancelRequested, other, controller, model, options, systemPrompt, messages, aborted, requests>>

\* the same with the cancellation thrown on like any other error
PostCancelledRethrows ==
    /\ pc = "awaitPost"
    /\ aborted
    /\ response' = {[kind |-> "cancel"]}
    /\ Throw(StreamError("canceled"))
    /\ UNCHANGED <<settingsVars, cancelRequested, other, controller, model, options, systemPrompt, messages, aborted, requests,
                   outputText, scan, chunks>>

\* axios.post rejects with a cancellation, which it does when the signal is
\* raised before it settles: the catch clause logs and stream returns
PostCancelled ==
    /\ pc = "awaitPost"
    /\ aborted
    /\ response' = {[kind |-> "cancel"]}
    /\ pc' = "done"
    /\ UNCHANGED <<settingsVars, cancelRequested, other, controller, model, options, systemPrompt, messages, aborted, requests,
                   outputText, scan, chunks, thrown>>

\* the same with the request issued again after a failure
PostFailedRetries ==
    /\ pc = "awaitPost"
    /\ ~aborted
    /\ \E e \in Rejected :
        /\ response' = {e}
        /\ requests' = Append(requests, requests[1])
    /\ UNCHANGED <<settingsVars, cancelRequested, other, controller, model, options, systemPrompt, messages, aborted, pc,
                   outputText, scan, chunks, thrown>>

\* the same with the error logged and dropped
PostFailedSwallowed ==
    /\ pc = "awaitPost"
    /\ ~aborted
    /\ \E e \in Rejected :
        /\ response' = {e}
        /\ pc' = "done"
    /\ UNCHANGED <<settingsVars, cancelRequested, other, controller, model, options, systemPrompt, messages, aborted, requests,
                   outputText, scan, chunks, thrown>>

\* axios.post rejects with an AxiosError: an error status, or no response
PostFailed ==
    /\ pc = "awaitPost"
    /\ ~aborted
    /\ \E e \in Rejected :
        /\ response' = {e}
        /\ Throw(AxiosErrorMessage(e))
    /\ UNCHANGED <<settingsVars, cancelRequested, other, controller, model, options, systemPrompt, messages, aborted, requests,
                   outputText, scan, chunks>>

\* the same with a raised signal thrown as an error between two chunks
PullThrowsIfAborted ==
    /\ pc = "yielding"
    /\ IF aborted
       THEN Throw(StreamError("canceled")) /\ UNCHANGED <<scan, chunks>>
       ELSE YieldStar(outputText, scan) /\ UNCHANGED thrown
    /\ UNCHANGED <<settingsVars, cancelRequested, other, controller, model, options, systemPrompt, messages, aborted, requests, response,
                   outputText>>

\* the same with the signal looked at between two chunks
PullUnlessAborted ==
    /\ pc = "yielding"
    /\ IF aborted
       THEN pc' = "done" /\ UNCHANGED <<scan, chunks>>
       ELSE YieldStar(outputText, scan)
    /\ UNCHANGED <<settingsVars, cancelRequested, other, controller, model, options, systemPrompt, messages, aborted, requests, response,
                   outputText, thrown>>

\* a later next() of the consumer: the tokenizer runs to its next yield
Pull ==
    /\ pc = "yielding"
    /\ YieldStar(outputText, scan)
    /\ UNCHANGED <<settingsVars, cancelRequested, other, controller, model, options, systemPrompt, messages, aborted, requests, response,
                   outputText, thrown>>

\* the consumer of parseClarifaiOutput on its own takes what next() gave
Consume(r) ==
    /\ scan' = r.scan
    /\ IF r.out = {}
       THEN pc' = "parsed" /\ UNCHANGED chunks
       ELSE pc' = "parsing" /\ chunks' = Append(chunks, Val(r.out))

\* next() on parseClarifaiOutput(outputText) called on its own
ParseNext ==
    /\ pc = "parsing"
    /\ \E r \in {Resume(outputText, scan)} : Consume(r)
    /\ UNCHANGED <<settingsVars, cancelRequested, other, controller, model, options, systemPrompt, messages, aborted, requests, response,
                   outputText, thrown>>

\* ---------------------------------------------------------- createMessage
\* return this.stream(systemPrompt, messages, new AbortController().signal):
\* the generator is created on the arguments as they are, with the signal of
\* a controller nobody else has; _cacheKey, given or not, is not read
\* the same with a signal whose controller the caller has
CreateMessagePassesSignal ==
    /\ pc = "uncalled"
    /\ \E cacheKey \in {{}, {"k"}} :
        /\ pc' = "created"
        /\ aborted' = FALSE
        /\ controller' = "caller"
    /\ UNCHANGED <<settingsVars, cancelRequested, other, model, options, systemPrompt, messages, requests,
                   response, outputText, scan, chunks, thrown>>

CreateMessageCalled ==
    /\ pc = "uncalled"
    /\ \E cacheKey \in {{}, {"k"}} :
        /\ pc' = "created"
        /\ aborted' = FALSE
        /\ controller' = "dropped"
    /\ UNCHANGED <<settingsVars, cancelRequested, other, model, options, systemPrompt, messages, requests,
                   response, outputText, scan, chunks, thrown>>

\* the caller asks for a cancellation: that raises the signal of the call
\* when the caller has its controller, and nothing else
CancelRequested ==
    /\ pc \notin {"uncalled", "done"}
    /\ ~cancelRequested
    /\ cancelRequested' = TRUE
    /\ aborted' = (aborted \/ controller = "caller")
    /\ UNCHANGED <<settingsVars, other, controller, model, options, systemPrompt, messages, pc, requests,
                   response, outputText, scan, chunks, thrown>>

\* ------------------------------------------------------------- two calls
\* The locals of a call of stream and of its parseClarifaiOutput, blockRegex
\* among them, live in the call's own frame; the handler's fields do not.
Frame ==
    [systemPrompt |-> systemPrompt, messages |-> messages, aborted |-> aborted,
     pc |-> pc, requests |-> requests, response |-> response,
     outputText |-> outputText, scan |-> scan, chunks |-> chunks,
     thrown |-> thrown, controller |-> controller]

\* the same with one blockRegex, and so one lastIndex, for all the calls
SwitchSharedRegex ==
    /\ other # {}
    /\ other' = {Frame}
    /\ systemPrompt' = Val(other).systemPrompt
    /\ messages' = Val(other).messages
    /\ aborted' = Val(other).aborted
    /\ pc' = Val(other).pc
    /\ requests' = Val(other).requests
    /\ response' = Val(other).response
    /\ outputText' = Val(other).outputText
    /\ scan' = [Val(other).scan EXCEPT !.regexLastIndex = scan.regexLastIndex]
    /\ chunks' = Val(other).chunks
    /\ thrown' = Val(other).thrown
    /\ controller' = Val(other).controller
    /\ UNCHANGED <<settingsVars, options, model, cancelRequested>>

\* Between two steps of a call the event loop may run the other call: the
\* running call is suspended with its frame and the other one resumed.
Switch ==
    /\ other # {}
    /\ other' = {Frame}
    /\ systemPrompt' = Val(other).systemPrompt
    /\ messages' = Val(other).messages
    /\ aborted' = Val(other).aborted
    /\ pc' = Val(other).pc
    /\ requests' = Val(other).requests
    /\ response' = Val(other).response
    /\ outputText' = Val(other).outputText
    /\ scan' = Val(other).scan
    /\ chunks' = Val(other).chunks
    /\ thrown' = Val(other).thrown
    /\ controller' = Val(other).controller
    /\ UNCHANGED <<settingsVars, options, model, cancelRequested>>

\* an answer with one output, which has a text, and no status envelope
SingleTextAnswer(r) ==
    /\ r.status = 200
    /\ r.data # {}
    /\ Val(r.data).status = {}
    /\ Val(r.data).outputs # {}
    /\ Len(Val(Val(r.data).outputs)) = 1
    /\ Val(Val(r.data).outputs)[1].raw \notin {{}, {<<>>}}

\* axios.post fulfils with such an answer
PostFulfilledSingle == PostFulfilled /\ SingleTextAnswer(Val(response'))

\* ---------------------------------------------------------------- getModel
\* clarifaiDefaultModelId and clarifaiModels of shared/api: the default id
\* and the table of the known models' descriptions, which holds the default
\* id at least; a description is named here by the id it belongs to
clarifaiDefaultModelId == <<"default">>
clarifaiModels == [id \in {clarifaiDefaultModelId} |-> [of |-> id]]

\* clarifaiModels[modelId] || clarifaiModels[clarifaiDefaultModelId]
ModelInfo(modelId) ==
    IF modelId \in DOMAIN clarifaiModels THEN clarifaiModels[modelId]
    ELSE clarifaiModels[clarifaiDefaultModelId]

\* the id of getModel with the default used for an undefined id only
ModelIdUndefinedOnly(apiModelId) ==
    IF apiModelId = {} THEN clarifaiDefaultModelId ELSE Val(apiModelId)

\* this.options.apiModelId || clarifaiDefaultModelId
ModelId(apiModelId) ==
    IF Not(apiModelId, <<>>) THEN clarifaiDefaultModelId ELSE Val(apiModelId)

\* the value getModel returns
GetModel(apiModelId) ==
    [id |-> ModelId(apiModelId), info |-> ModelInfo(ModelId(apiModelId))]

\* a call of getModel, at any time
GetModelCalled ==
    /\ model' = {GetModel(options.apiModelId)}
    /\ UNCHANGED <<options, systemPrompt, messages, aborted, pc, requests,
                   response, outputText, scan, chunks, thrown, controller, other,
                   cancelRequested, settingsVars>>

\* ------------------------------------------------------ settings component
\* the messages posted and not yet received, in both directions
InFlight == Len(toExtension) + Len(toWebview)

\* onChange of the PAT input: setPat(e.target.value); the state baseUrl is
\* left at its initial value, the default base URL
PatTyped ==
    /\ \E v \in {"", "pat"} : v # patInput /\ patInput' = v
    /\ UNCHANGED <<isTesting, testResult, isSaving, saveResult, toExtension, toWebview,
                   streamVars>>

\* a click on Test Connection, which is disabled when !pat || isTesting
handleTestConnection ==
    /\ patInput # ""
    /\ ~isTesting
    /\ InFlight < MaxInFlight
    /\ isTesting' = TRUE
    /\ testResult' = {}
    /\ saveResult' = {}
    /\ toExtension' = Append(toExtension,
                             [type |-> "testClarifaiConnection", pat |-> patInput,
                              baseUrl |-> DefaultBaseUrl, values |-> {}])
    /\ UNCHANGED <<patInput, isSaving, toWebview, streamVars>>

\* a click on Save, which is disabled when !pat || isSaving
handleSave ==
    /\ patInput # ""
    /\ ~isSaving
    /\ InFlight < MaxInFlight
    /\ isSaving' = TRUE
    /\ saveResult' = {}
    /\ testResult' = {}
    /\ toExtension' = Append(toExtension,
                             [type |-> "saveClarifaiSettings", pat |-> patInput,
                              baseUrl |-> DefaultBaseUrl, values |-> {}])
    /\ UNCHANGED <<patInput, isTesting, toWebview, streamVars>>

\* a saveClarifaiSettings message that carries values, which the component
\* never sends, comes in from another sender
SaveWithValuesPosted ==
    /\ InFlight < MaxInFlight
    /\ toExtension' = Append(toExtension,
                             [type |-> "saveClarifaiSettings", pat |-> "",
                              baseUrl |-> "", values |-> {"v"}])
    /\ UNCHANGED <<patInput, isTesting, testResult, isSaving, saveResult, toWebview,
                   streamVars>>

\* A clarifaiTestResult message is posted to the webview while the component
\* waits for one.  webviewMessageHandler has no case that posts it: its sender
\* is not in the code at hand, and nothing obliges it to act.
TestResultPosted ==
    /\ isTesting
    /\ InFlight < MaxInFlight
    /\ \E success \in BOOLEAN :
          toWebview' = Append(toWebview, [type |-> "clarifaiTestResult", success |-> success])
    /\ UNCHANGED <<patInput, isTesting, testResult, isSaving, saveResult, toExtension,
                   streamVars>>

\* the same with a message that carries values taken for saved
PostedValuesSaved(message) ==
    IF message.type = "saveClarifaiSettings"
    THEN IF message.values # {}
         THEN <<[type |-> "clarifaiSettingsSaved", success |-> TRUE, error |-> ""]>>
         ELSE <<[type |-> "clarifaiSettingsSaved", success |-> FALSE,
                 error |-> "Missing values."]>>
    ELSE <<>>

\* what webviewMessageHandler posts to the webview for a message of the
\* settings component: the switch has the case saveClarifaiSettings, no case
\* testClarifaiConnection or getClarifaiSettings, and no default
Posted(message) ==
    IF message.type = "saveClarifaiSettings"
    THEN IF message.values # {}
         THEN <<[type |-> "clarifaiSettingsSaved", success |-> FALSE,
                 error |-> "Deprecated message type."]>>
         ELSE <<[type |-> "clarifaiSettingsSaved", success |-> FALSE,
                 error |-> "Missing values."]>>
    ELSE <<>>

\* the extension takes the next message of the webview
webviewMessageHandler ==
    /\ toExtension # <<>>
    /\ toExtension' = Tail(toExtension)
    /\ toWebview' = toWebview \o Posted(Head(toExtension))
    /\ UNCHANGED <<patInput, isTesting, testResult, isSaving, saveResult, streamVars>>

\* the listener of the component on a message of the window
OnMessage(message) ==
    IF message.type = "clarifaiSettings"
    THEN /\ patInput' = message.pat
         /\ UNCHANGED <<isTesting, testResult, isSaving, saveResult>>
    ELSE IF message.type = "clarifaiTestResult"
    THEN /\ isTesting' = FALSE
         /\ testResult' = {message.success}
         /\ UNCHANGED <<patInput, isSaving, saveResult>>
    ELSE IF message.type = "clarifaiSettingsSaved"
    THEN /\ isSaving' = FALSE
         /\ saveResult' = {message.success}
         /\ UNCHANGED <<patInput, isTesting, testResult>>
    ELSE UNCHANGED <<patInput, isTesting, testResult, isSaving, saveResult>>

handler ==
    /\ toWebview # <<>>
    /\ toWebview' = Tail(toWebview)
    /\ OnMessage(Head(toWebview))
    /\ UNCHANGED <<toExtension, streamVars>>

\* ---------------------------------------------------------- specifications
\* what every run starts from apart from its inputs
Fresh ==
    /\ requests = <<>>
    /\ response = {}
    /\ outputText = <<>>
    /\ scan = ScanStart
    /\ chunks = <<>>
    /\ thrown = {}
    /\ model = {}
    /\ controller = "caller"
    /\ other = {}
    /\ cancelRequested = FALSE
    /\ Mounted

\* stream, from the call to the end, on a few configurations and histories
Init ==
    /\ options \in [clarifaiPat : {{}, {""}, {"pat"}},
                    apiModelId : {{}, {<<>>}, {ValidModelId}, {<<"abc", "/", "def">>}},
                    clarifaiApiBaseUrl : {{}, {"http://localhost"}}]
    /\ systemPrompt \in {"", "hi"}
    /\ messages \in {<<>>, <<Message("user", StringContent("hello"))>>}
    /\ aborted \in BOOLEAN
    /\ pc = "created"
    /\ Fresh

Next ==
    \/ StreamCalled
    \/ Abort
    \/ PostFulfilled
    \/ PostCancelled
    \/ PostFailed
    \/ Pull

Spec == Init /\ [][Next]_vars

\* stream up to its request, on every short model id
ModelIdLexemes == {"u", "/", "models"}
InitConfig ==
    /\ options \in [clarifaiPat : {{}, {"pat"}},
                    apiModelId : {{id} : id \in SeqsUpTo(ModelIdLexemes, MaxIdLen)
                                               \cup {ValidModelId, <<"abc", "/", "def">>}},
                    clarifaiApiBaseUrl : {{}}]
    /\ systemPrompt = "hi"
    /\ messages = <<>>
    /\ aborted = FALSE
    /\ pc = "created"
    /\ Fresh

SpecConfig == InitConfig /\ [][StreamCalled]_vars

\* getModel called before or after the call of stream, on every short model
\* id, the default id, and no model id at all
InitGetModel ==
    /\ options \in [clarifaiPat : {{}, {"pat"}},
                    apiModelId : {{}} \cup {{id} : id \in SeqsUpTo(ModelIdLexemes, MaxIdLen)
                                               \cup {ValidModelId, clarifaiDefaultModelId}},
                    clarifaiApiBaseUrl : {{}}]
    /\ systemPrompt = "hi"
    /\ messages = <<>>
    /\ aborted = FALSE
    /\ pc = "created"
    /\ Fresh

SpecGetModel == InitGetModel /\ [][GetModelCalled \/ StreamCalled]_vars

\* createMessage, from the call to the end of the stream it returns
InitCreate ==
    /\ options \in [clarifaiPat : {{}, {""}, {"pat"}},
                    apiModelId : {{}, {<<>>}, {ValidModelId}, {<<"abc", "/", "def">>}},
                    clarifaiApiBaseUrl : {{}, {"http://localhost"}}]
    /\ systemPrompt \in {"", "hi"}
    /\ messages \in {<<>>, <<Message("user", StringContent("hello"))>>}
    /\ aborted = FALSE
    /\ pc = "uncalled"
    /\ Fresh

NextCreate ==
    \/ CreateMessageCalled
    \/ CancelRequested
    \/ StreamCalled
    \/ PostFulfilled
    \/ PostFailed
    \/ Pull

SpecCreate == InitCreate /\ [][NextCreate]_vars

\* the settings component and the extension's message handler
InitSettings ==
    /\ options = [clarifaiPat |-> {}, apiModelId |-> {}, clarifaiApiBaseUrl |-> {}]
    /\ systemPrompt = ""
    /\ messages = <<>>
    /\ aborted = FALSE
    /\ pc = "created"
    /\ Fresh

NextSettings ==
    \/ PatTyped
    \/ handleTestConnection
    \/ handleSave
    \/ SaveWithValuesPosted
    \/ TestResultPosted
    \/ webviewMessageHandler
    \/ handler

SpecSettings == InitSettings /\ [][NextSettings]_vars

\* the same with an extension that handles every message it is sent and a
\* window that delivers every message posted to it
SpecSettingsFair ==
    InitSettings /\ [][NextSettings]_vars
        /\ WF_vars(webviewMessageHandler) /\ WF_vars(handler)

ValidOptions ==
    [clarifaiPat |-> {"pat"}, apiModelId |-> {ValidModelId}, clarifaiApiBaseUrl |-> {}]

\* two calls of stream on one handler, with different arguments, their steps
\* interleaved in every order
InitTwoCalls ==
    /\ options = ValidOptions
    /\ systemPrompt = "hi"
    /\ messages = <<>>
    /\ aborted = FALSE
    /\ pc = "created"
    /\ requests = <<>>
    /\ response = {}
    /\ outputText = <<>>
    /\ scan = ScanStart
    /\ chunks = <<>>
    /\ thrown = {}
    /\ model = {}
    /\ controller = "caller"
    /\ other = {[systemPrompt |-> "",
                 messages |-> <<Message("user", StringContent("hello"))>>,
                 aborted |-> FALSE, pc |-> "created", requests |-> <<>>,
                 response |-> {}, outputText |-> <<>>, scan |-> ScanStart,
                 chunks |-> <<>>, thrown |-> {}, controller |-> "caller"]}
    /\ cancelRequested = FALSE
    /\ Mounted

NextTwoCalls ==
    \/ StreamCalled
    \/ Abort
    \/ PostFulfilledSingle
    \/ PostCancelled
    \/ PostFailed
    \/ Pull
    \/ Switch

SpecTwoCalls == InitTwoCalls /\ [][NextTwoCalls]_vars

\* stream up to its request, on every short history of plain string messages
InitRequest ==
    /\ options = ValidOptions
    /\ systemPrompt \in {"", "hi"}
    /\ messages \in SeqsUpTo({Message(role, StringContent(v)) :
                                  role \in Roles, v \in {"hello", "", "x\ny"}},
                             MaxMessages)
    /\ aborted = FALSE
    /\ pc = "created"
    /\ Fresh

SpecRequest == InitRequest /\ [][StreamCalled]_vars

\* stream up to its request, on every small history of messages with parts
InitParts ==
    /\ options = ValidOptions
    /\ systemPrompt \in {"", "hi"}
    /\ messages \in HistoriesOfSize(MaxHistorySize)
    /\ aborted = FALSE
    /\ pc = "created"
    /\ Fresh

SpecParts == InitParts /\ [][StreamCalled]_vars

\* stream up to its request, on every model id of three one-lexeme segments
\* around "models", with a few tokens and base URLs
IdSegments == {"u", "a", "n"}
InitUrl ==
    /\ options \in [clarifaiPat : {{"pat"}, {"k2"}},
                    apiModelId : {{<<u, "/", a, "/", "models", "/", n>>} :
                                      u \in IdSegments, a \in IdSegments, n \in IdSegments},
                    clarifaiApiBaseUrl : {{}, {""}, {"http://localhost"},
                                          {"https://host/api"}}]
    /\ systemPrompt \in {"", "hi"}
    /\ messages \in {<<>>, <<Message("user", StringContent("hello"))>>}
    /\ aborted = FALSE
    /\ pc = "created"
    /\ Fresh

SpecUrl == InitUrl /\ [][StreamCalled]_vars

\* parseClarifaiOutput on its own, on every short text
ParseLexemes == {"x", "\n", "<thinking>", "</thinking>", "tool_code", Fence}
TagLexemes == {"x", " ", "<thinking>", "</thinking>", "<task>", "</task>"}
ParseSamples ==
    RawTexts \cup
    {<<"tool_result", " ", Fence, "\n", "<thinking>", "x", "</thinking>", " ", Fence, "x">>,
     <<"<environment_details>", "tool_code", Fence, "\n", Fence, "</environment_details>">>,
     <<"<task>", "x", "</thinking>", "<thinking>", "\n", "x", " ", "</thinking>", "</task>">>,
     <<"<task>", " ", "x", "</task>", "tool_code", Fence, "\n", "x", Fence>>,
     <<"<thinking>", " ", "x", " ", "x", " ", "</thinking>">>,
     <<"x", "<task>", " ", "x", "</task>", " ", "<thinking>", "x", " ", "</thinking>">>}

InitParseOn(texts) ==
    /\ options = ValidOptions
    /\ systemPrompt = ""
    /\ messages = <<>>
    /\ aborted = FALSE
    /\ pc = "parsing"
    /\ requests = <<>>
    /\ response = {}
    /\ outputText \in texts
    /\ scan = ScanStart
    /\ chunks = <<>>
    /\ thrown = {}
    /\ model = {}
    /\ controller = "caller"
    /\ other = {}
    /\ cancelRequested = FALSE
    /\ Mounted

InitParse == InitParseOn(SeqsUpTo(ParseLexemes, MaxLen) \cup ParseSamples)
SpecParse == InitParse /\ [][ParseNext]_vars

\* parseClarifaiOutput on every short text of tags, markers and fences, long
\* enough for a block to lie inside another
NestLexemes == {"<thinking>", "</thinking>", "tool_code", Fence, "\n"}
InitNested == InitParseOn(SeqsUpTo(NestLexemes, MaxNestLen) \cup ParseSamples)
SpecNested == InitNested /\ [][ParseNext]_vars

\* the same with a consumer that goes on calling next() until the generator
\* returns, as for await does
InitParseFair == InitParseOn(SeqsUpTo(ParseLexemes, MaxFairLen) \cup RawTexts)
SpecParseFair == InitParseFair /\ [][ParseNext]_vars /\ WF_vars(ParseNext)

InitTags == InitParseOn(SeqsUpTo(TagLexemes, MaxTagLen) \cup ParseSamples)
SpecTags == InitTags /\ [][ParseNext]_vars

\* ------------------------------------------------------------------ claims
SetMin(S) == CHOOSE m \in S : \A k \in S : m <= k

\* the concatenation of the values of a chunk sequence
RECURSIVE Values(_)
Values(cs) == IF cs = <<>> THEN <<>> ELSE Head(cs).text \o Values(Tail(cs))

\* x without its leading and trailing whitespace, said without recursion
Trimmed(x) ==
    LET solid == {k \in 1..Len(x) : ~IsSpace(x[k])}
    IN  IF solid = {} THEN <<>> ELSE SubSeq(x, SetMin(solid), SetMax(solid))

\* a response with exactly one output, whose raw text is defined
SingleOutput(r) ==
    /\ r.kind = "fulfilled"
    /\ r.status = 200
    /\ HasOutputs(r.data)
    /\ Len(Val(Val(r.data).outputs)) = 1
    /\ Val(Val(r.data).outputs)[1].raw # {}
SingleRaw(r) == Val(Val(Val(r.data).outputs)[1].raw)

\* C1 as stated: once stream has ended on a 200 response with one output, the
\* chunks are the tokenization of that output's raw text with nothing added;
\* for "Hello <thinking>ponder</thinking> world" they are text "Hello ",
\* reasoning "ponder", text " world".
C1_AsStated ==
    (pc = "done" /\ response # {} /\ SingleOutput(Val(response)))
        => /\ chunks = ParseClarifaiOutput(SingleRaw(Val(response)))
           /\ SingleRaw(Val(response)) = ExampleRaw
                => chunks = <<Chunk("text", <<"Hello", " ">>),
                              Chunk("reasoning", <<"ponder">>),
                              Chunk("text", <<" ", "world">>)>>

\* C1, amended: once stream has ended on a 200 response with one output whose
\* raw text is not empty, no error is raised and the chunks are the
\* tokenization of that raw text followed by one newline; for
\* "Hello <thinking>ponder</thinking> world" they are text "Hello ", reasoning
\* "ponder", text " world\n".
C1_SingleOutputTokenized ==
    (pc = "done" /\ response # {} /\ SingleOutput(Val(response))
        /\ SingleRaw(Val(response)) # <<>>)
        => /\ thrown = {}
           /\ chunks = ParseClarifaiOutput(SingleRaw(Val(response)) \o <<"\n">>)
           /\ SingleRaw(Val(response)) = ExampleRaw
                => chunks = <<Chunk("text", <<"Hello", " ">>),
                              Chunk("reasoning", <<"ponder">>),
                              Chunk("text", <<" ", "world", "\n">>)>>

C1_Witness ==
    /\ pc = "done"
    /\ response # {}
    /\ SingleOutput(Val(response))
    /\ SingleRaw(Val(response)) = ExampleRaw
    /\ Len(chunks) = 3

\* the text has no block that blockRegex recognizes, at any offset
NoBlock(text) == \A i \in 0..(Len(text) - 1) : MatchAt(text, i).end < 0

\* C2: a text with no recognized tag block and no recognized fenced block is
\* emitted as exactly one text chunk holding the whole text, and the empty
\* text as no chunk.
C2_PlainTextOneChunk ==
    (pc = "parsed" /\ NoBlock(outputText))
        => chunks = IF outputText = <<>> THEN <<>>
                    ELSE <<Chunk("text", outputText)>>

C2_Witness ==
    /\ pc = "parsed"
    /\ outputText = <<"<thinking>", "x", "tool_code", Fence>>
    /\ NoBlock(outputText)
    /\ chunks = <<Chunk("text", outputText)>>

\* the text is <thinking>X</thinking> for an X that holds no </thinking>
OneThinkingBlock(text) ==
    /\ Len(text) >= 2
    /\ text[1] = "<thinking>"
    /\ text[Len(text)] = "</thinking>"
    /\ \A k \in 2..(Len(text) - 1) : text[k] # "</thinking>"

\* C3: a text that is exactly one <thinking>X</thinking> block is emitted as
\* exactly one chunk, a reasoning chunk whose value is X without its leading
\* and trailing whitespace.
C3_ThinkingBlockOneReasoning ==
    (pc = "parsed" /\ OneThinkingBlock(outputText))
        => chunks = <<Chunk("reasoning",
                            Trimmed(SubSeq(outputText, 2, Len(outputText) - 1)))>>

C3_Witness ==
    /\ pc = "parsed"
    /\ outputText = <<"<thinking>", " ", "x", " ", "x", " ", "</thinking>">>
    /\ chunks = <<Chunk("reasoning", <<"x", " ", "x">>)>>

\* The text with the delimiters of its tag blocks removed and their contents
\* trimmed: a tag block starts at the first opening tag that has a closing
\* tag of its name after it, and ends at the first such closing tag.
OpensBlock(t, i) ==
    \E n \in TagNames :
        /\ t[i] = OpenTag(n)
        /\ \E j \in (i + 1)..Len(t) : t[j] = CloseTag(n)
BlockClose(t, i) ==
    SetMin({j \in (i + 1)..Len(t) : \E n \in TagNames :
                t[i] = OpenTag(n) /\ t[j] = CloseTag(n)})

RECURSIVE TagsStripped(_)
TagsStripped(t) ==
    LET opens == {i \in 1..Len(t) : OpensBlock(t, i)}
    IN  IF opens = {} THEN t
        ELSE LET i == SetMin(opens)
                 j == BlockClose(t, i)
             IN  SubSeq(t, 1, i - 1) \o Trimmed(SubSeq(t, i + 1, j - 1))
                     \o TagsStripped(SubSeq(t, j + 1, Len(t)))

\* the text has no fenced block, at any offset
NoFencedBlock(text) ==
    \A i \in 0..(Len(text) - 1) :
        FencedAt(text, i, "tool_code").end < 0 /\ FencedAt(text, i, "tool_result").end < 0

RECURSIVE DelimitersRemoved(_)
DelimitersRemoved(t) ==
    LET m == Exec(t, 0)
    IN  IF m.end < 0 THEN t
        ELSE Substring(t, 0, m.index)
                 \o (IF m.g1 # {} THEN Substring(t, m.index + 1, m.end - 1)
                     ELSE SelectSeq(Substring(t, m.index + 1, m.end - 1),
                                    LAMBDA c : c # Fence))
                 \o DelimitersRemoved(Substring(t, m.end, Len(t)))

\* C5 as stated: the chunk values concatenated in emission order are the
\* response with only the tag and fence delimiters removed; no other
\* character is dropped and no delimiter is left in the output.
C5_AsStated ==
    pc = "parsed" => Values(chunks) = DelimitersRemoved(outputText)

\* the text with the tags of its recognized tag blocks removed and their
\* contents trimmed, its recognized fenced blocks kept whole
RECURSIVE Reconstructed(_)
Reconstructed(t) ==
    LET m == Exec(t, 0)
    IN  IF m.end < 0 THEN t
        ELSE Substring(t, 0, m.index)
                 \o (IF m.g1 # {} THEN Trimmed(Substring(t, m.index + 1, m.end - 1))
                     ELSE Substring(t, m.index, m.end))
                 \o Reconstructed(Substring(t, m.end, Len(t)))

\* C5, amended: the chunk values concatenated in emission order are the
\* response with the opening and closing tag of every recognized tag block
\* removed and the content of that block trimmed of its leading and trailing
\* whitespace; every recognized fenced block is kept whole, marker and fences
\* included; nothing else is dropped and nothing is duplicated.
C5_Reconstruction ==
    pc = "parsed" => Values(chunks) = Reconstructed(outputText)

C5_Witness ==
    /\ pc = "parsed"
    /\ outputText = <<"<task>", " ", "x", "</task>", "tool_code", Fence, "\n", "x", Fence>>
    /\ chunks = <<Chunk("reasoning", <<"x">>),
                  Chunk("text", <<"tool_code", Fence, "\n", "x", Fence>>)>>

\* the model id has exactly three "/" and the lexemes between the second and
\* the third spell "models"
WellFormedId(id) ==
    LET slashes == {k \in 1..Len(id) : id[k] = "/"}
    IN  /\ Cardinality(slashes) = 3
        /\ \E a, b \in slashes :
            /\ SetMin(slashes) < a
            /\ a < b
            /\ Concat(SubSeq(id, a + 1, b - 1)) = "models"

\* C6: when the configured model id does not split on "/" into exactly four
\* segments of which the third is "models", the call of stream ends at once
\* with a configuration error, and no request is issued.
C6_MalformedIdRejected ==
    (pc # "created" /\ options.apiModelId # {} /\ ~WellFormedId(Val(options.apiModelId)))
        => /\ pc = "done"
           /\ thrown \subseteq {PatMissing, ModelIdMissing,
                                ModelIdInvalid(Val(options.apiModelId))}
           /\ thrown # {}
           /\ options.clarifaiPat = {"pat"} /\ Val(options.apiModelId) # <<>>
                => thrown = {ModelIdInvalid(Val(options.apiModelId))}
           /\ requests = <<>>
           /\ chunks = <<>>

C6_Witness ==
    /\ pc = "done"
    /\ options.clarifaiPat = {"pat"}
    /\ options.apiModelId = {<<"u", "/", "u", "/", "/">>}
    /\ thrown = {"Invalid Clarifai Model ID format: u/u//. Expected format: user_id/app_id/models/model_name."}
    /\ requests = <<>>

\* C7: when the access token is absent or the model id is absent, the call of
\* stream ends at once with the configuration error of the first of the two
\* that is absent, no chunk is emitted and no request is issued.
C7_MissingConfigRejected ==
    (pc # "created" /\ (options.clarifaiPat \in {{}, {""}}
                            \/ options.apiModelId \in {{}, {<<>>}}))
        => /\ pc = "done"
           /\ thrown = IF options.clarifaiPat \in {{}, {""}}
                       THEN {"Clarifai Personal Access Token (PAT) is not configured."}
                       ELSE {"Clarifai Model ID is not configured."}
           /\ chunks = <<>>
           /\ requests = <<>>

C7_Witness ==
    /\ pc = "done"
    /\ options.clarifaiPat = {""}
    /\ options.apiModelId = {ValidModelId}
    /\ thrown # {}
    /\ requests = <<>>

ValidConfig ==
    /\ options.clarifaiPat \notin {{}, {""}}
    /\ options.apiModelId # {}
    /\ WellFormedId(Val(options.apiModelId))

\* C8: with a valid configuration, once the cancellation signal is raised
\* before the call of stream or while the request is pending, every step of
\* the call (the request, then its cancellation) emits no chunk and raises no
\* error, and the step from the pending request ends the stream.
C8_CancelIsSilent ==
    [][(ValidConfig /\ aborted /\ pc \in {"created", "awaitPost"})
          => /\ pc' = (IF pc = "created" THEN "awaitPost" ELSE "done")
             /\ chunks' = <<>>
             /\ thrown' = {}]_vars

C8_Witness ==
    /\ ValidConfig
    /\ aborted
    /\ pc = "done"
    /\ response = {[kind |-> "cancel"]}
    /\ chunks = <<>>
    /\ thrown = {}

\* the request text of the one request made
RequestText == requests[1].body.inputs[1].data.text.raw

RoleLabel(role) == IF role = "user" THEN "User: " ELSE "Assistant: "
SystemPart == IF systemPrompt # "" THEN "System: " \o systemPrompt \o "\n\n" ELSE ""

\* C9: for a history of messages with plain string content, the request text
\* is "System: " + prompt + two newlines when the prompt is not empty, then,
\* for each message in order, its role label, its content verbatim and two
\* newlines; prompt "hi" with one user message "hello" gives
\* "System: hi\n\nUser: hello\n\n".
C9_FlattenStrings ==
    (requests # <<>> /\ \A i \in 1..Len(messages) : ~messages[i].content.isArray)
        => /\ Len(requests) = 1
           /\ RequestText =
                SystemPart \o Concat([i \in 1..Len(messages) |->
                    RoleLabel(messages[i].role) \o messages[i].content.value \o "\n\n"])
           /\ (systemPrompt = "hi"
                   /\ messages = <<Message("user", StringContent("hello"))>>)
                => RequestText = "System: hi\n\nUser: hello\n\n"

C9_Witness ==
    /\ requests # <<>>
    /\ systemPrompt = "hi"
    /\ messages = <<Message("user", StringContent("hello")),
                    Message("assistant", StringContent("x\ny"))>>
    /\ RequestText = "System: hi\n\nUser: hello\n\nAssistant: x\ny\n\n"

\* the texts of the parts (the empty string for a part that is not text)
\* with one newline between each two, built from the last part backwards
RECURSIVE PartsJoined(_)
PartsJoined(parts) ==
    IF parts = <<>> THEN ""
    ELSE PartsJoined(SubSeq(parts, 1, Len(parts) - 1))
             \o (IF Len(parts) > 1 THEN "\n" ELSE "")
             \o (IF parts[Len(parts)].type = "text" THEN parts[Len(parts)].text ELSE "")

\* C10: a message whose content is a sequence of parts contributes its role
\* label, the parts' texts (the empty string for a non-text part) joined by
\* one newline in part order, and two newlines; user and assistant messages
\* differ in the label only.
C10_FlattenParts ==
    (requests # <<>> /\ \A i \in 1..Len(messages) : messages[i].content.isArray)
        => RequestText =
             SystemPart \o Concat([i \in 1..Len(messages) |->
                 RoleLabel(messages[i].role) \o PartsJoined(messages[i].content.value)
                     \o "\n\n"])

C10_Witness ==
    /\ requests # <<>>
    /\ systemPrompt = ""
    /\ messages = <<Message("assistant",
                            ArrayContent(<<[type |-> "text", text |-> "a"],
                                           [type |-> "image", source |-> "data"],
                                           [type |-> "text", text |-> "b"]>>))>>
    /\ RequestText = "Assistant: a\n\nb\n\n"

\* the backend answered: axios.post fulfilled, or rejected with a response
Answered(r) == r.kind = "fulfilled" \/ (r.kind = "axiosError" /\ r.response # {})
AnswerStatus(r) == IF r.kind = "fulfilled" THEN r.status ELSE Val(r.response).status
AnswerData(r) == IF r.kind = "fulfilled" THEN r.data ELSE Val(r.response).data
\* the error envelope {status: {code, description}} of the answer, if any
AnswerEnvelope(r) == IF AnswerData(r) = {} THEN {} ELSE Val(AnswerData(r)).status

\* C11 as stated: when the backend answers with a status other than 200, no
\* chunk is emitted and stream raises the backend error "Clarifai API error
\* (code): description" whose code and description are those of the answer's
\* envelope whenever the envelope is present, whatever their values, and whose
\* code is the transport status when the envelope is absent; HTTP 500 with
\* code 9, description "bad" raises "Clarifai API error (9): bad".
C11_AsStated ==
    (pc = "done" /\ response # {} /\ Answered(Val(response))
        /\ AnswerStatus(Val(response)) # 200)
        => /\ chunks = <<>>
           /\ \E description \in {"bad", "", "timeout", "Unknown error"} :
                 thrown = {ApiError(
                     ToString(IF AnswerEnvelope(Val(response)) # {}
                              THEN Val(AnswerEnvelope(Val(response))).code
                              ELSE AnswerStatus(Val(response))),
                     description)}
           /\ AnswerEnvelope(Val(response)) # {}
                => thrown = {ApiError(
                       ToString(Val(AnswerEnvelope(Val(response))).code),
                       Val(AnswerEnvelope(Val(response))).description)}

\* an HTTP 200 answer, and the outputs it carries (none when they are missing)
Ok200(r) == r.kind = "fulfilled" /\ r.status = 200
OutputsOf(r) ==
    IF r.data = {} \/ Val(r.data).outputs = {} THEN <<>> ELSE Val(Val(r.data).outputs)
\* no output of the answer has a raw text that is not empty
NoUsableText(r) ==
    \A k \in 1..Len(OutputsOf(r)) : OutputsOf(r)[k].raw \in {{}, {<<>>}}

RECURSIVE TextsWithNewlines(_)
TextsWithNewlines(outs) ==
    IF outs = <<>> THEN <<>>
    ELSE TextsWithNewlines(SubSeq(outs, 1, Len(outs) - 1))
             \o (IF outs[Len(outs)].raw \in {{}, {<<>>}} THEN <<>>
                 ELSE Val(outs[Len(outs)].raw) \o <<"\n">>)

\* s is the start of t
IsPrefix(s, t) == Len(s) <= Len(t) /\ s = SubSeq(t, 1, Len(s))

\* C13: on an HTTP 200 answer with at least one output text that is not
\* empty, no error is raised and the text handed to the tokenizer is the
\* concatenation, in output order, of every output text that is not empty,
\* each followed by one newline (an output without text adds nothing); the
\* chunks emitted are those of one run of the tokenizer on that text, all of
\* them once the stream has ended.
C13_OutputsConcatenated ==
    (response # {} /\ Ok200(Val(response)) /\ ~NoUsableText(Val(response)))
        => /\ thrown = {}
           /\ outputText = TextsWithNewlines(OutputsOf(Val(response)))
           /\ IsPrefix(chunks,
                  ParseClarifaiOutput(TextsWithNewlines(OutputsOf(Val(response)))))
           /\ pc = "done"
                => chunks = ParseClarifaiOutput(
                                TextsWithNewlines(OutputsOf(Val(response))))

C13_Witness ==
    /\ pc = "done"
    /\ response # {}
    /\ Ok200(Val(response))
    /\ OutputsOf(Val(response)) = <<[raw |-> {<<"x">>}], [raw |-> {ExampleRaw}]>>
    /\ outputText = <<"x", "\n", "Hello", " ", "<thinking>", "ponder", "</thinking>",
                      " ", "world", "\n">>
    /\ Len(chunks) = 3

\* the network call failed without a response, and not by cancellation
NoResponse(r) == r.kind = "axiosError" /\ r.response = {}

\* C14: when the network call fails without a response and not by
\* cancellation, stream ends with the error "Clarifai API error (Network
\* Error): " followed by the transport's message, and with no chunk.
C14_TransportFailureRaised ==
    (response # {} /\ NoResponse(Val(response)))
        => /\ pc = "done"
           /\ thrown = {"Clarifai API error (Network Error): " \o Val(response).message}
           /\ chunks = <<>>

C14_Witness ==
    /\ pc = "done"
    /\ response = {[kind |-> "axiosError", message |-> "socket hang up", response |-> {}]}
    /\ thrown = {"Clarifai API error (Network Error): socket hang up"}
    /\ chunks = <<>>

\* C15: at every point of one call of stream at most one network request has
\* been issued, and exactly one once the call has passed the configuration
\* checks, whether the request is pending, succeeded, was rejected, failed or
\* was cancelled.
C15_AtMostOneRequest ==
    /\ Len(requests) <= 1
    /\ (pc \in {"awaitPost", "yielding"} \/ response # {}) => Len(requests) = 1
    /\ (pc = "done" /\ response = {}) => requests = <<>>

C15_Witness ==
    /\ pc = "done"
    /\ response # {}
    /\ Val(response).kind = "axiosError"
    /\ Val(response).response # {}
    /\ thrown # {}
    /\ Len(requests) = 1

\* the number of blocks blockRegex recognizes in the text from offset from
\* on, each search starting where the last block ended
RECURSIVE CountBlocks(_, _)
CountBlocks(text, from) ==
    IF Exec(text, from).end < 0 THEN 0
    ELSE 1 + CountBlocks(text, Exec(text, from).end)

\* C16: at every point of the tokenization of a text, and so at its end, the
\* number of chunks emitted is at most twice the number of recognized blocks
\* of the text plus one.
C16_ChunkBound ==
    pc \in {"parsing", "parsed"}
        => Len(chunks) <= 2 * CountBlocks(outputText, 0) + 1

C16_Witness ==
    /\ pc = "parsed"
    /\ outputText = <<"x", "<thinking>", "x", "</thinking>", "x">>
    /\ CountBlocks(outputText, 0) = 1
    /\ Len(chunks) = 3

\* C17: during tokenization lastIndex never exceeds the length of the text
\* and never decreases; at every accepted match (the step that follows the
\* emission of its block) it moves to the end of that match, which is
\* strictly greater than its value before; and with a consumer that keeps
\* asking, the generator returns, after which no chunk is added.
C17_ScanTerminates ==
    /\ [](scan.lastIndex >= 0 /\ scan.lastIndex <= Len(outputText))
    /\ [][scan'.lastIndex >= scan.lastIndex]_vars
    /\ [][(pc = "parsing" /\ scan.at = "afterBlock")
             => /\ scan'.lastIndex = scan.match.end
                /\ scan'.lastIndex > scan.lastIndex]_vars
    /\ <>[](pc = "parsed" /\ Len(chunks) <= Len(outputText))

C17_Witness ==
    /\ pc = "parsed"
    /\ outputText = <<"<thinking>", "</thinking>", "<thinking>", "</thinking>">>
    /\ scan.lastIndex = 4
    /\ Len(chunks) = 2

\* the base URL the request is to use: the configured one, or the default
\* when none is configured (an empty one counts as none)
BaseUrlInUse ==
    IF options.clarifaiApiBaseUrl \in {{}, {""}} THEN "https://api.clarifai.com"
    ELSE Val(options.clarifaiApiBaseUrl)

\* C18: for a valid model id u/a/models/n, exactly one request is made; it
\* goes to <baseUrl>/v2/users/u/apps/a/models/n/outputs, where baseUrl is the
\* configured base URL or https://api.clarifai.com when none is configured,
\* its Authorization header is "Key " followed by the token, and its body is
\* {inputs: [{data: {text: {raw: the flattened text}}}]}.
C18_RequestShape ==
    (pc # "created" /\ options.clarifaiPat \notin {{}, {""}})
        => \A u, a, n \in IdSegments :
             options.apiModelId = {<<u, "/", a, "/", "models", "/", n>>}
                => /\ Len(requests) = 1
                   /\ requests[1].url =
                        BaseUrlInUse \o "/v2/users/" \o u \o "/apps/" \o a
                            \o "/models/" \o n \o "/outputs"
                   /\ requests[1].headers.Authorization
                        = "Key " \o Val(options.clarifaiPat)
                   /\ requests[1].body.inputs
                        = <<[data |-> [text |-> [raw |->
                               SystemPart \o Concat([i \in 1..Len(messages) |->
                                   RoleLabel(messages[i].role)
                                       \o messages[i].content.value \o "\n\n"])]]]>>

C18_Witness ==
    /\ pc = "awaitPost"
    /\ options = [clarifaiPat |-> {"k2"}, apiModelId |-> {<<"u", "/", "a", "/", "models", "/", "n">>},
                  clarifaiApiBaseUrl |-> {"http://localhost"}]
    /\ systemPrompt = "hi"
    /\ messages = <<>>
    /\ requests = <<[url |-> "http://localhost/v2/users/u/apps/a/models/n/outputs",
                     headers |-> [Authorization |-> "Key k2",
                                  ContentType |-> "application/json"],
                     body |-> [inputs |-> <<[data |-> [text |-> [raw |-> "System: hi\n\n"]]]>>]]>>

\* C19: getModel never fails and is a function of the configured model id
\* alone: with no model id configured (absent or empty) it returns the
\* default id, with one configured it returns that id, whatever it is; and a
\* call changes nothing but the value returned, at whatever point of stream
\* it is made.
C19_GetModelPure ==
    /\ [](model # {}
            => /\ Val(model).id =
                    IF options.apiModelId \in {{}, {<<>>}} THEN clarifaiDefaultModelId
                    ELSE Val(options.apiModelId)
               /\ options.apiModelId \in {{}, {<<>>}}
                    => Val(model).info = clarifaiModels[clarifaiDefaultModelId])
    /\ [][model' # model
            => /\ model' # {}
               /\ <<options, systemPrompt, messages, aborted, pc, requests,
                    response, outputText, scan, chunks, thrown, controller, other,
                    cancelRequested, settingsVars>>'
                    = <<options, systemPrompt, messages, aborted, pc, requests,
                        response, outputText, scan, chunks, thrown, controller,
                        other, cancelRequested, settingsVars>>]_vars
    /\ [][model # {} => model' = model]_vars

C19_Witness ==
    /\ options.apiModelId = {<<>>}
    /\ options.clarifaiPat = {"pat"}
    /\ model = {[id |-> clarifaiDefaultModelId, info |-> [of |-> clarifaiDefaultModelId]]}
    /\ thrown = {"Clarifai Model ID is not configured."}

\* chunk c is what the span [from, to) of the text gives: the span is a
\* recognized block starting at from and c is its chunk (the trimmed content
\* for a tag block, the whole span for a fenced block), or the span is plain
\* text up to the next block or the end of the text and c is that text
FromSpan(text, c, from, to) ==
    \/ /\ MatchAt(text, from).end = to
       /\ c = IF \E n \in TagNames : text[from + 1] = OpenTag(n)
              THEN Chunk("reasoning", Trimmed(Substring(text, from + 1, to - 1)))
              ELSE Chunk("text", Substring(text, from, to))
    \/ /\ \A i \in from..(to - 1) : MatchAt(text, i).end < 0
       /\ to = Len(text) \/ MatchAt(text, to).end >= 0
       /\ c = Chunk("text", Substring(text, from, to))

\* the chunks cs come, in order, from spans that follow one another without
\* gap or overlap from offset from to offset end
RECURSIVE CoversTo(_, _, _, _)
CoversTo(text, cs, from, end) ==
    IF cs = <<>> THEN from = end
    ELSE \E to \in (from + 1)..end :
            FromSpan(text, Head(cs), from, to) /\ CoversTo(text, Tail(cs), to, end)

\* C20: the chunks emitted so far come, in emission order, from spans of the
\* text that start at 0 and follow one another without gap or overlap, each
\* either the plain text from the end of the last span to the start of the
\* next block (or to the end of the text) or exactly the span of a block; once
\* the tokenizer has returned, the spans reach the end of the text.
C20_SpansCoverInput ==
    /\ pc = "parsing" => \E end \in 0..Len(outputText) : CoversTo(outputText, chunks, 0, end)
    /\ pc = "parsed" => CoversTo(outputText, chunks, 0, Len(outputText))

C20_Witness ==
    /\ pc = "parsed"
    /\ outputText = <<"x", "tool_code", Fence, "\n", Fence>>
    /\ chunks = <<Chunk("text", <<"x">>),
                  Chunk("text", <<"tool_code", Fence, "\n", Fence>>)>>

\* the lexeme is the opening tag of one of the three tag names
IsOpenTag(c) == \E n \in TagNames : c = OpenTag(n)

\* the trimmed inner contents of the tag blocks blockRegex recognizes in the
\* text from offset from on, in order
RECURSIVE TagBlockContents(_, _)
TagBlockContents(text, from) ==
    LET m == Exec(text, from)
    IN  IF m.end < 0 THEN <<>>
        ELSE (IF IsOpenTag(text[m.index + 1])
              THEN <<Trimmed(Substring(text, m.index + 1, m.end - 1))>>
              ELSE <<>>)
                 \o TagBlockContents(text, m.end)

\* the values of the reasoning chunks of a chunk sequence, in order
RECURSIVE ReasoningValues(_)
ReasoningValues(cs) ==
    IF cs = <<>> THEN <<>>
    ELSE (IF Head(cs).type = "reasoning" THEN <<Head(cs).text>> ELSE <<>>)
             \o ReasoningValues(Tail(cs))

\* the chunk is a text chunk holding a whole tag block from its first lexeme
IsTagBlockAsText(c) ==
    /\ c.type = "text"
    /\ \E n \in TagNames :
        /\ c.text # <<>>
        /\ c.text[1] = OpenTag(n)
        /\ \E k \in 2..Len(c.text) : c.text[k] = CloseTag(n)

RECURSIVE FencedBlockSpans(_, _)
FencedBlockSpans(text, from) ==
    LET m == Exec(text, from)
    IN  IF m.end < 0 THEN <<>>
        ELSE (IF text[m.index + 1] \in {"tool_code", "tool_result"}
              THEN <<Substring(text, m.index, m.end)>>
              ELSE <<>>)
                 \o FencedBlockSpans(text, m.end)

\* the values of the text chunks that are, from their first lexeme to their
\* last, one fenced block
RECURSIVE FencedChunkValues(_)
FencedChunkValues(cs) ==
    IF cs = <<>> THEN <<>>
    ELSE (IF /\ Head(cs).type = "text"
             /\ Head(cs).text # <<>>
             /\ Head(cs).text[1] \in {"tool_code", "tool_result"}
             /\ MatchAt(Head(cs).text, 0).end = Len(Head(cs).text)
          THEN <<Head(cs).text>> ELSE <<>>)
             \o FencedChunkValues(Tail(cs))

\* C22: every chunk emitted is a text chunk or a reasoning chunk; and once
\* the tokenizer has returned, the text chunks that are a fenced block are,
\* in order, one per recognized tool_code or tool_result block of the text,
\* each holding the whole matched block unchanged, marker and fences
\* included.
C22_FencedBlocksVerbatim ==
    /\ \A k \in 1..Len(chunks) : chunks[k].type \in {"text", "reasoning"}
    /\ pc = "parsed"
         => FencedChunkValues(chunks) = FencedBlockSpans(outputText, 0)

C22_Witness ==
    /\ pc = "parsed"
    /\ outputText = <<"tool_code", Fence, "json", "\n", "x", "\n", Fence>>
    /\ chunks = <<Chunk("text", <<"tool_code", Fence, "json", "\n", "x", "\n", Fence>>)>>

\* the offsets of the text at which blockRegex matches
BlockStarts(text) == {i \in 0..(Len(text) - 1) : MatchAt(text, i).end >= 0}

\* the chunk of the block that spans [i, e) of the text
ChunkOfSpan(text, i, e) ==
    IF IsOpenTag(text[i + 1])
    THEN Chunk("reasoning", Trimmed(Substring(text, i + 1, e - 1)))
    ELSE Chunk("text", Substring(text, i, e))

\* the chunks of a text whose leftmost block starts at i: the text before
\* the block, the block, and the chunks of what follows the block; nothing
\* that starts inside the block is looked at
LeftmostThenRest(text, i) ==
    (IF i > 0 THEN <<Chunk("text", Substring(text, 0, i))>> ELSE <<>>)
        \o <<ChunkOfSpan(text, i, MatchAt(text, i).end)>>
        \o ParseClarifaiOutput(Substring(text, MatchAt(text, i).end, Len(text)))

\* C23: whenever the scan holds an accepted match, it is the match at the
\* leftmost offset at or after lastIndex where blockRegex matches; the next
\* accepted match starts at or after the end of the one before; and once the
\* tokenizer has returned, the chunks are the text before the leftmost block,
\* that block's one chunk, and the chunks of the text after its end, so that
\* a tag block inside an earlier-starting fenced block stays in the verbatim
\* text chunk and a fenced block inside an earlier-starting tag block stays
\* in the reasoning value.
C23_LeftmostNoRevisit ==
    /\ [](scan.match.end >= 0
            => /\ scan.match.index >= scan.lastIndex
               /\ scan.match.end = MatchAt(outputText, scan.match.index).end
               /\ \A i \in scan.lastIndex..(scan.match.index - 1) :
                      MatchAt(outputText, i).end < 0)
    /\ [][(scan.match.end >= 0 /\ scan'.match.end >= 0 /\ scan'.match # scan.match)
             => scan'.match.index >= scan.match.end]_vars
    /\ []((pc = "parsed" /\ BlockStarts(outputText) # {})
            => chunks = LeftmostThenRest(outputText, SetMin(BlockStarts(outputText))))

C23_Witness ==
    /\ pc = "parsed"
    /\ outputText = <<"tool_code", Fence, "\n", "<thinking>", "</thinking>", Fence>>
    /\ MatchAt(outputText, 3).end = 5
    /\ chunks = <<Chunk("text", outputText)>>

\* no opening tag of the text has a closing tag of its own name after it
NoClosedTag(text) == \A i \in 1..Len(text) : ~OpensBlock(text, i)

\* C24: a match of the tag alternative always runs from an opening tag to a
\* closing tag of the same name; and a text without fenced block in which no
\* opening tag is followed by a closing tag of its own name (as in
\* <task>x</thinking>, or an opening tag never closed) gives no reasoning
\* chunk: it is emitted whole as one text chunk.
C24_SameNameClosingTag ==
    /\ (scan.match.end >= 0 /\ IsOpenTag(outputText[scan.match.index + 1]))
         => \E n \in TagNames :
               /\ outputText[scan.match.index + 1] = OpenTag(n)
               /\ outputText[scan.match.end] = CloseTag(n)
    /\ (pc = "parsed" /\ NoClosedTag(outputText) /\ NoFencedBlock(outputText))
         => /\ ReasoningValues(chunks) = <<>>
            /\ chunks = IF outputText = <<>> THEN <<>>
                        ELSE <<Chunk("text", outputText)>>

C24_Witness ==
    /\ pc = "parsed"
    /\ outputText = <<"<task>", "x", "</thinking>", "<thinking>">>
    /\ chunks = <<Chunk("text", outputText)>>

\* C25: when the cancellation signal is raised after the network call has
\* succeeded (an HTTP 200 answer with some output text), no error is raised,
\* the chunks received so far are still the first chunks of the tokenization
\* of the response, the stream is not ended before the tokenizer returns, and
\* at its end the consumer has received all of them, in order.
C25_LateCancelIgnored ==
    (aborted /\ response # {} /\ Ok200(Val(response)) /\ ~NoUsableText(Val(response)))
        => /\ thrown = {}
           /\ IsPrefix(chunks, ParseClarifaiOutput(outputText))
           /\ pc \in {"yielding", "done"}
           /\ pc = "yielding" => scan.at \in {"afterText", "afterBlock", "afterTail"}
           /\ pc = "done" => (scan.at = "returned"
                                /\ chunks = ParseClarifaiOutput(outputText))

C25_Witness ==
    /\ aborted
    /\ pc = "done"
    /\ response # {}
    /\ Ok200(Val(response))
    /\ OutputsOf(Val(response)) = <<[raw |-> {ExampleRaw}]>>
    /\ chunks = <<Chunk("text", <<"Hello", " ">>),
                  Chunk("reasoning", <<"ponder">>),
                  Chunk("text", <<" ", "world", "\n">>)>>
    /\ thrown = {}

\* what a call with the frame f has done is what it does when run alone: its
\* request is built from its own arguments, its text and chunks come from its
\* own answer, its error from its own failure, its end from its own signal
AsAlone(f) ==
    /\ f.requests = IF f.pc = "created" THEN <<>>
                    ELSE <<Request(Val(options.clarifaiPat), options.clarifaiApiBaseUrl,
                                   Split(Val(options.apiModelId)),
                                   InputText(f.systemPrompt, f.messages))>>
    /\ f.response = {} => (f.chunks = <<>> /\ f.thrown = {} /\ f.pc \in {"created", "awaitPost"})
    /\ (f.response # {} /\ Val(f.response).kind = "cancel")
         => (f.aborted /\ f.chunks = <<>> /\ f.thrown = {} /\ f.pc = "done")
    /\ (f.response # {} /\ Val(f.response).kind = "axiosError")
         => (f.chunks = <<>> /\ f.pc = "done"
                /\ f.thrown = {AxiosErrorMessage(Val(f.response))})
    /\ (f.response # {} /\ Val(f.response).kind = "fulfilled")
         => /\ f.thrown = {}
            /\ f.outputText = SingleRaw(Val(f.response)) \o <<"\n">>
            /\ IsPrefix(f.chunks, ParseClarifaiOutput(f.outputText))
            /\ f.pc \in {"yielding", "done"}
            /\ f.pc = "done" => f.chunks = ParseClarifaiOutput(f.outputText)

\* C26: with the steps of two calls of stream on one handler interleaved in
\* any order, each call, the running one and the suspended one, has at every
\* point done what it does when run alone.
C26_CallsIndependent ==
    other # {} => (options = ValidOptions /\ AsAlone(Frame) /\ AsAlone(Val(other)))

C26_Witness ==
    /\ other # {}
    /\ pc = "yielding"
    /\ systemPrompt = "hi"
    /\ outputText = ExampleRaw \o <<"\n">>
    /\ Len(chunks) = 2
    /\ Val(other).pc = "yielding"
    /\ Val(other).outputText = FencedRaw \o <<"\n">>
    /\ Len(Val(other).chunks) = 1

\* a backend rejection that carries the envelope {code: 9, description: "bad"}:
\* delivered by the transport and taken by the non-success branch, or rejected
\* by the transport with an HTTP error status
DeliveredRejection(r) ==
    r.kind = "fulfilled" /\ ~(r.status = 200 /\ HasOutputs(r.data))
TransportRejection(r) == r.kind = "axiosError" /\ r.response # {}
CarriesBad(r) == AnswerEnvelope(r) = {[code |-> 9, description |-> "bad"]}

\* C27 as stated: a backend rejection is raised in one and the same form,
\* "Clarifai API error (code): description" with the backend's code and
\* description, whether the transport delivered the response or rejected it.
C27_AsStated ==
    (pc = "done" /\ response # {} /\ CarriesBad(Val(response))
        /\ (DeliveredRejection(Val(response)) \/ TransportRejection(Val(response))))
        => thrown = {ApiError("9", "bad")}

\* C28: in every execution of stream an error raised and chunks emitted
\* exclude each other: when an error is raised no chunk has been emitted and
\* the call has ended, and once a chunk is emitted no error is raised, at the
\* end of the call included.
C28_ErrorOrChunks ==
    /\ thrown # {} => (chunks = <<>> /\ pc = "done")
    /\ chunks # <<>> => (thrown = {} /\ pc \in {"yielding", "done"})

C28_Witness ==
    /\ pc = "done"
    /\ aborted
    /\ Len(chunks) = 3
    /\ thrown = {}
    /\ response # {}
    /\ Val(response).kind = "fulfilled"

\* the configuration error of the first check that fails, in the order token,
\* model id presence, model id shape; none when the configuration is valid
FirstConfigError ==
    IF options.clarifaiPat \in {{}, {""}} THEN {PatMissing}
    ELSE IF options.apiModelId \in {{}, {<<>>}} THEN {ModelIdMissing}
    ELSE IF Val(options.apiModelId) = <<"abc", "/", "def">>
    THEN {"Invalid Clarifai Model ID format: abc/def. Expected format: user_id/app_id/models/model_name."}
    ELSE {}

\* C29: once stream is called with an invalid configuration it has raised the
\* configuration error of the first failing check (token, then model id
\* presence, then model id shape), has sent no request and has ended, whether
\* or not the cancellation signal was raised before the call.
C29_ConfigBeforeSignal ==
    (pc # "created" /\ FirstConfigError # {})
        => (thrown = FirstConfigError /\ requests = <<>> /\ pc = "done"
               /\ chunks = <<>> /\ response = {})

C29_Witness ==
    /\ aborted
    /\ pc = "done"
    /\ options.clarifaiPat = {""}
    /\ options.apiModelId = {<<"abc", "/", "def">>}
    /\ thrown = {PatMissing}

\* what stream(systemPrompt, messages, s) has done for a signal s that is
\* never raised, by where it stands and what axios.post settled with
AsStreamNeverRaised ==
    /\ FirstConfigError # {}
         => /\ requests = <<>> /\ response = {} /\ chunks = <<>>
            /\ pc = "created" => thrown = {}
            /\ pc # "created" => (pc = "done" /\ thrown = FirstConfigError)
    /\ FirstConfigError = {}
         => /\ requests = IF pc = "created" THEN <<>>
                          ELSE <<Request(Val(options.clarifaiPat), options.clarifaiApiBaseUrl,
                                         Split(Val(options.apiModelId)),
                                         InputText(systemPrompt, messages))>>
            /\ response = {} => (chunks = <<>> /\ thrown = {} /\ pc \in {"created", "awaitPost"})
            /\ response # {} => Val(response).kind \in {"fulfilled", "axiosError"}
            /\ (response # {} /\ Val(response).kind = "axiosError")
                 => (chunks = <<>> /\ pc = "done"
                        /\ thrown = {AxiosErrorMessage(Val(response))})
            /\ (response # {} /\ DeliveredRejection(Val(response)))
                 => (chunks = <<>> /\ pc = "done"
                        /\ thrown = {StreamError(ResponseError(Val(response)))})
            /\ (response # {} /\ Val(response).kind = "fulfilled"
                  /\ ~DeliveredRejection(Val(response)))
                 => /\ thrown = {}
                    /\ IsPrefix(chunks, ParseClarifaiOutput(FullOutputText(OutputsOf(Val(response)))))
                    /\ pc \in {"yielding", "done"}
                    /\ pc = "done"
                         => chunks = ParseClarifaiOutput(FullOutputText(OutputsOf(Val(response))))

\* C30: a stream started through createMessage(systemPrompt, messages), with
\* or without a cache key, does what stream does on the same arguments with a
\* signal that is never raised: the signal of the call stays down whatever
\* cancellation the caller asks for, and the request, the chunks and the error
\* are those of stream.
C30_CreateMessageAsStream ==
    pc # "uncalled" => (~aborted /\ AsStreamNeverRaised)

C30_Witness ==
    /\ cancelRequested
    /\ pc = "done"
    /\ ~aborted
    /\ Len(requests) = 1
    /\ Len(chunks) = 3
    /\ thrown = {}

\* C31 as stated: whenever getModel has returned an id, a call of stream under
\* the same configuration (with a token) has either failed the validation of
\* that id or sent its request for that id.
C31_AsStated ==
    (model # {} /\ pc # "created" /\ options.clarifaiPat = {"pat"})
        => \/ thrown = {ModelIdInvalid(Val(model).id)} /\ requests = <<>>
           \/ thrown = {}
                /\ requests = <<Request("pat", options.clarifaiApiBaseUrl,
                                        Split(Val(model).id),
                                        InputText(systemPrompt, messages))>>

\* the model id has an empty user id, app id or model name
HasEmptySegment(id) ==
    \E k \in {1, 2, 4} : k <= Len(Split(id)) /\ Split(id)[k] = ""

\* C32 as stated: a model id with an empty segment is rejected by the
\* validation before any request, so every request of stream has a user id,
\* an app id and a model name that are not empty in its URL path.
C32_AsStated ==
    (pc # "created" /\ options.apiModelId # {}
        /\ HasEmptySegment(Val(options.apiModelId)))
        => (requests = <<>> /\ thrown # {})

\* C33: every text chunk parseClarifaiOutput emits has a value that is not
\* empty, whatever the input; a chunk with an empty value is a reasoning chunk,
\* the one of a tag block whose content is empty or white space only.
C33_TextChunksNotEmpty ==
    \A k \in 1..Len(chunks) :
        /\ chunks[k].type = "text" => chunks[k].text # <<>>
        /\ chunks[k].text = <<>>
             => /\ chunks[k].type = "reasoning"
                /\ \E p \in 1..Len(outputText), q \in 1..Len(outputText), n \in TagNames :
                      /\ p < q
                      /\ outputText[p] = OpenTag(n)
                      /\ outputText[q] = CloseTag(n)
                      /\ \A k2 \in (p + 1)..(q - 1) : IsSpace(outputText[k2])

C33_Witness ==
    /\ pc = "parsed"
    /\ outputText = <<"x", "<thinking>", " ", "</thinking>", "<task>", "</task>">>
    /\ chunks = <<Chunk("text", <<"x">>), Chunk("reasoning", <<>>),
                  Chunk("reasoning", <<>>)>>

\* C34: a match of the tag alternative ends at the first closing tag of its
\* name after its opening tag; and for a text that starts with a tag block the
\* chunks are the reasoning chunk of the content up to that first closing tag,
\* trimmed, then the chunks of everything after it taken as a text of its own,
\* a later closing tag left without opening tag included.
C34_FirstClosingTagEnds ==
    /\ (scan.match.end >= 0 /\ IsOpenTag(outputText[scan.match.index + 1]))
         => scan.match.end = BlockClose(outputText, scan.match.index + 1)
    /\ (pc = "parsed" /\ outputText # <<>> /\ OpensBlock(outputText, 1))
         => chunks =
              <<Chunk("reasoning",
                      Trimmed(SubSeq(outputText, 2, BlockClose(outputText, 1) - 1)))>>
                 \o ParseClarifaiOutput(SubSeq(outputText, BlockClose(outputText, 1) + 1,
                                               Len(outputText)))

C34_Witness ==
    /\ pc = "parsed"
    /\ outputText = <<"<thinking>", "x", "<thinking>", "</thinking>", "x", "</thinking>">>
    /\ chunks = <<Chunk("reasoning", <<"x", "<thinking>">>),
                  Chunk("text", <<"x", "</thinking>">>)>>

\* C35: every saveClarifaiSettings message the extension handles, with values
\* or without, is answered with exactly one clarifaiSettingsSaved message whose
\* success is false; the state saveResult is never true; and whenever the
\* component is saving it later is not.
C35_SaveAlwaysRefused ==
    /\ [][(toExtension # <<>> /\ Head(toExtension).type = "saveClarifaiSettings"
             /\ toExtension' = Tail(toExtension))
            => /\ Len(toWebview') = Len(toWebview) + 1
               /\ SubSeq(toWebview', 1, Len(toWebview)) = toWebview
               /\ toWebview'[Len(toWebview')].type = "clarifaiSettingsSaved"
               /\ toWebview'[Len(toWebview')].success = FALSE]_vars
    /\ [](saveResult # {TRUE})
    /\ (isSaving ~> ~isSaving)

C35_Witness ==
    /\ ~isSaving
    /\ saveResult = {FALSE}
    /\ isTesting
    /\ toExtension = <<>>
    /\ toWebview = <<>>

\* C36 as stated: the extension answers every testClarifaiConnection message
\* it handles with a clarifaiTestResult message, and whenever the component is
\* testing it later is not.
C36_AsStated ==
    /\ [][(toExtension # <<>> /\ Head(toExtension).type = "testClarifaiConnection"
             /\ toExtension' = Tail(toExtension))
            => /\ Len(toWebview') = Len(toWebview) + 1
               /\ toWebview'[Len(toWebview')].type = "clarifaiTestResult"]_vars
    /\ (isTesting ~> ~isTesting)

\* the same without the answer: whenever the component is testing it later is
\* not
C36_TestingEnds == isTesting ~> ~isTesting

====
